---- MODULE Spec2Model ----
(***************************************************************************)
(* Model of the FastAPI todo backend of main.py: the in-memory task store  *)
(* todos_db and the handlers create_todo, update_todo, patch_todo,         *)
(* delete_todo, get_all_todos, get_todo_by_id and mint_nft_endpoint.       *)
(*                                                                         *)
(* Every handler is an `async def` that never awaits, so one request runs  *)
(* to completion before the next one starts: one action per handler.       *)
(* The handlers that call out of the process (the chain node, the payment  *)
(* API) are also modelled call by call, under SpecGateway, where requests  *)
(* are received while another one is being handled.                        *)
(* Requests are those that pass FastAPI's body validation (a body that     *)
(* does not parse into the handler's parameter types never reaches the     *)
(* handler).                                                               *)
(***************************************************************************)
EXTENDS Integers, Sequences, FiniteSets, TLC

VARIABLES
    todos_db,    \* the list todos_db: a sequence of TodoItem records
    uuid_count,  \* how many values uuid.uuid4() has returned so far
    sent_txs,    \* how many times w3.eth.send_raw_transaction was called
    last,        \* the request handled last and the status it was answered with
    requests,    \* number of requests handled so far
    inflight,    \* the /mint-nft and /create-checkout-session requests received
    running,     \* the request whose handler holds the event loop, 0 if none
    tx_count,    \* the node: w3.eth.get_transaction_count(owner_address)
    pool         \* the node: nonces of the owner's transactions not yet mined

store   == <<todos_db, uuid_count, last, requests>>
gateway == <<inflight, running, tx_count, pool>>
vars    == <<todos_db, uuid_count, sent_txs, last, requests,
             inflight, running, tx_count, pool>>

(***************************************************************************)
(* Bounds.                                                                 *)
(***************************************************************************)
MaxRequests == 3
MaxInFlight == 3

(***************************************************************************)
(* Python values.  A str is its sequence of characters.                    *)
(***************************************************************************)
Str(s)    == [py |-> "str", chars |-> s]
PyBool(b) == [py |-> "bool", val |-> b]
PyInt(n)  == [py |-> "int", num |-> n]
PyNone    == [py |-> "NoneType"]

IsStr(v)  == v.py = "str"
IsBool(v) == v.py = "bool"

\* Python's ==, on the values of the model (bool is a subclass of int:
\* True == 1 and False == 0).
AsInt(v) == IF v.py = "bool" THEN (IF v.val THEN 1 ELSE 0) ELSE v.num

PyEq(a, b) ==
    IF a.py \in {"bool", "int"} /\ b.py \in {"bool", "int"}
    THEN AsInt(a) = AsInt(b)
    ELSE a = b

\* str.strip(): leading and trailing whitespace removed.
RECURSIVE LStrip(_)
LStrip(s) == IF s # <<>> /\ Head(s) = " " THEN LStrip(Tail(s)) ELSE s

RECURSIVE RStrip(_)
RStrip(s) ==
    IF s # <<>> /\ s[Len(s)] = " " THEN RStrip(SubSeq(s, 1, Len(s) - 1)) ELSE s

Strip(s) == RStrip(LStrip(s))

\* str(uuid.uuid4()): the n-th value returned, all distinct.
Uuid(n) == Str(<<"u", ToString(n)>>)

(***************************************************************************)
(* HTTP status codes used by the handlers.                                 *)
(***************************************************************************)
HTTP_200_OK == 200
HTTP_201_CREATED == 201
HTTP_204_NO_CONTENT == 204
HTTP_400_BAD_REQUEST == 400
HTTP_404_NOT_FOUND == 404
HTTP_500_INTERNAL_SERVER_ERROR == 500

(***************************************************************************)
(* JSON request bodies: an object is the sequence of its <<key, value>>    *)
(* members in the order a dict iterates over them; keys are distinct.      *)
(***************************************************************************)
Keys(body) == {body[i][1] : i \in 1..Len(body)}

Get(body, key) ==
    LET i == CHOOSE j \in 1..Len(body) : body[j][1] = key IN body[i][2]

\* dict[key] = value on an existing key: the key keeps its position.
Put(body, key, value) ==
    [i \in 1..Len(body) |->
        IF body[i][1] = key THEN <<key, value>> ELSE body[i]]

(***************************************************************************)
(* TodoItem and the seed store.                                            *)
(***************************************************************************)
TodoItem(id, text, completed) ==
    [id |-> id, text |-> text, completed |-> completed]

\* The three seed tasks; their texts are abbreviated to the initials of
\* their words, the inner space kept.
SeedTodos ==
    << TodoItem(Uuid(1), Str(<<"K", " ", "m">>), PyBool(FALSE)),
       TodoItem(Uuid(2), Str(<<"P", " ", "k">>), PyBool(TRUE)),
       TodoItem(Uuid(3), Str(<<"N", " ", "k">>), PyBool(FALSE)) >>

SeedCount == 3

NoRequest == [op |-> "none", id |-> PyNone, body |-> <<>>, status |-> 0]

Init ==
    /\ todos_db = SeedTodos
    /\ uuid_count = SeedCount
    /\ sent_txs = 0
    /\ last = NoRequest
    /\ requests = 0
    /\ inflight = <<>>
    /\ running = 0
    /\ tx_count = 0
    /\ pool = {}

(***************************************************************************)
(* Request inputs.                                                         *)
(***************************************************************************)
\* Texts a caller sends: empty, whitespace-only, plain, and padded.
TextInputs == { <<>>, <<" ">>, <<"a">>, <<" ", "a", " ">> }

\* Ids a caller knows: the ones the server has issued, and one of its own.
CallerIds == { Str(<<"a">>) }
IssuedIds == { Uuid(n) : n \in 1..uuid_count }
StoredIds == { todos_db[i].id : i \in 1..Len(todos_db) }
PathIds   == { v \in IssuedIds \cup CallerIds \cup StoredIds : IsStr(v) }

\* Bodies of POST /todos that parse into a TodoItem: text is required, id
\* and completed are optional.
CreateBodies ==
    { <<<<"text", Str(t)>>>> : t \in TextInputs }
    \cup { << <<"id", i>>, <<"text", Str(t)>> >> :
             i \in {Str(<<" ">>)} \cup CallerIds \cup {Uuid(1)}, t \in TextInputs }
    \cup { << <<"text", Str(t)>>, <<"completed", PyBool(c)>> >> :
             t \in TextInputs, c \in BOOLEAN }

\* Bodies of PUT /todos/{id} that parse into an UpdateTodoTextPayload.
UpdateBodies == { <<<<"text", Str(t)>>>> : t \in TextInputs }

\* Bodies of PATCH /todos/{id}: any JSON object, here of up to two members.
\* "foo" is a key TodoItem has no field for.
PatchMembers ==
    { <<"id", v>> : v \in {Uuid(2), PyNone} }
    \cup { <<"text", v>> : v \in {Str(<<" ">>), Str(<<" ", "a", " ">>), PyInt(5)} }
    \cup { <<"completed", v>> : v \in {PyBool(TRUE), PyBool(FALSE), Str(<<"y", "e", "s">>)} }
    \cup { <<"foo", PyInt(1)>> }

SecondMembers == { <<"completed", PyBool(TRUE)>>, <<"foo", PyInt(1)>> }

PatchBodies ==
    { <<>> }
    \cup { <<m>> : m \in PatchMembers }
    \cup { p \in PatchMembers \X SecondMembers : p[1][1] # p[2][1] }

(***************************************************************************)
(* Handlers.  Each returns the store it leaves and the status it answers;  *)
(* an exception no handler catches is answered 500 by the framework.       *)
(***************************************************************************)
Outcome(db, status) == [db |-> db, status |-> status]

\* TodoItem(**body): the pydantic defaults for the members left out.
ParseTodoItem(body) ==
    TodoItem(IF "id" \in Keys(body) THEN Get(body, "id") ELSE PyNone,
             Get(body, "text"),
             IF "completed" \in Keys(body) THEN Get(body, "completed")
                                          ELSE PyBool(FALSE))

\* `not todo.id or todo.id.strip() == ""`
IdMissing(id) == id = PyNone \/ Strip(id.chars) = <<>>

\* create_todo storing the text as it was sent.
create_todo_untrimmed(db, body, fresh) ==
    LET todo == ParseTodoItem(body)
        trimmed_text == Strip(todo.text.chars)
    IN  IF trimmed_text = <<>>
        THEN Outcome(db, HTTP_400_BAD_REQUEST)
        ELSE Outcome(
               Append(db, TodoItem(IF IdMissing(todo.id) THEN fresh ELSE todo.id,
                                   todo.text,
                                   todo.completed)),
               HTTP_201_CREATED)

\* create_todo testing the text as it was sent (`if not todo.text`).
create_todo_rawcheck(db, body, fresh) ==
    LET todo == ParseTodoItem(body)
        trimmed_text == Strip(todo.text.chars)
    IN  IF todo.text.chars = <<>>
        THEN Outcome(db, HTTP_400_BAD_REQUEST)
        ELSE Outcome(
               Append(db, TodoItem(IF IdMissing(todo.id) THEN fresh ELSE todo.id,
                                   Str(trimmed_text),
                                   todo.completed)),
               HTTP_201_CREATED)

create_todo(db, body, fresh) ==
    LET todo == ParseTodoItem(body)
        trimmed_text == Strip(todo.text.chars)
    IN  IF trimmed_text = <<>>
        THEN Outcome(db, HTTP_400_BAD_REQUEST)
        ELSE Outcome(
               Append(db, TodoItem(IF IdMissing(todo.id) THEN fresh ELSE todo.id,
                                   Str(trimmed_text),
                                   todo.completed)),
               HTTP_201_CREATED)

\* Index of the first record whose id equals todo_id, 0 if there is none.
FirstIndex(db, todo_id) ==
    IF \E i \in 1..Len(db) : PyEq(db[i].id, todo_id)
    THEN CHOOSE i \in 1..Len(db) :
            /\ PyEq(db[i].id, todo_id)
            /\ \A j \in 1..(i - 1) : ~PyEq(db[j].id, todo_id)
    ELSE 0

\* update_todo without the check of the text.
update_todo_unchecked(db, todo_id, body) ==
    LET text == Get(body, "text")
        index == FirstIndex(db, todo_id)
    IN  IF index = 0 THEN Outcome(db, HTTP_404_NOT_FOUND)
        ELSE Outcome([db EXCEPT ![index].text = text], HTTP_200_OK)

update_todo(db, todo_id, body) ==
    LET text == Get(body, "text")
        trimmed_text == Strip(text.chars)
        index == FirstIndex(db, todo_id)
    IN  IF trimmed_text = <<>> THEN Outcome(db, HTTP_400_BAD_REQUEST)
        ELSE IF index = 0 THEN Outcome(db, HTTP_404_NOT_FOUND)
        ELSE Outcome([db EXCEPT ![index].text = text], HTTP_200_OK)

\* An assignment that rebuilds the record and leaves completed to its
\* default unless completed is what is assigned.
SetAttrRebuild(todo, key, value) ==
    CASE key = "id"        -> TodoItem(value, todo.text, PyBool(FALSE))
      [] key = "text"      -> TodoItem(todo.id, value, PyBool(FALSE))
      [] key = "completed" -> TodoItem(todo.id, todo.text, value)

\* setattr(todo, key, value) on a pydantic model: no validation of the
\* assigned value.
SetAttr(todo, key, value) ==
    CASE key = "id"        -> [todo EXCEPT !.id = value]
      [] key = "text"      -> [todo EXCEPT !.text = value]
      [] key = "completed" -> [todo EXCEPT !.completed = value]

HasField(key) == key \in {"id", "text", "completed"}

\* The loop `for key, value in updated_fields.items(): setattr(...)`, from
\* member k on.  setattr raises ValueError on a key that is no field; the
\* members before it have been assigned by then.
RECURSIVE SetAll(_, _, _)
SetAll(todo, fields, k) ==
    IF k > Len(fields) THEN [todo |-> todo, raised |-> FALSE]
    ELSE IF ~HasField(fields[k][1]) THEN [todo |-> todo, raised |-> TRUE]
    ELSE SetAll(SetAttr(todo, fields[k][1], fields[k][2]), fields, k + 1)

patch_todo(db, todo_id, updated_fields) ==
    IF "text" \in Keys(updated_fields) /\ ~IsStr(Get(updated_fields, "text"))
    THEN \* .strip() of a value that is no str: AttributeError
         Outcome(db, HTTP_500_INTERNAL_SERVER_ERROR)
    ELSE IF /\ "text" \in Keys(updated_fields)
            /\ Strip(Get(updated_fields, "text").chars) = <<>>
    THEN Outcome(db, HTTP_400_BAD_REQUEST)
    ELSE
      LET fields == IF "text" \in Keys(updated_fields)
                    THEN Put(updated_fields, "text",
                             Str(Strip(Get(updated_fields, "text").chars)))
                    ELSE updated_fields
          index == FirstIndex(db, todo_id)
      IN  IF index = 0 THEN Outcome(db, HTTP_404_NOT_FOUND)
          ELSE LET r == SetAll(db[index], fields, 1)
               IN  \* the record is mutated in place, so the assignments
                   \* made before an exception stay in the store
                   Outcome([db EXCEPT ![index] = r.todo],
                           IF r.raised THEN HTTP_500_INTERNAL_SERVER_ERROR
                                       ELSE HTTP_200_OK)

\* Removing the first match only, as list.remove would.
RECURSIVE WithoutFirst(_, _)
WithoutFirst(db, todo_id) ==
    IF db = <<>> THEN <<>>
    ELSE IF PyEq(Head(db).id, todo_id) THEN Tail(db)
    ELSE <<Head(db)>> \o WithoutFirst(Tail(db), todo_id)

\* [todo for todo in todos_db if todo.id != todo_id]
RECURSIVE Without(_, _)
Without(db, todo_id) ==
    IF db = <<>> THEN <<>>
    ELSE IF PyEq(Head(db).id, todo_id) THEN Without(Tail(db), todo_id)
    ELSE <<Head(db)>> \o Without(Tail(db), todo_id)

\* delete_todo without the comparison of the lengths.
delete_todo_silent(db, todo_id) ==
    Outcome(Without(db, todo_id), HTTP_204_NO_CONTENT)

delete_todo(db, todo_id) ==
    LET initial_len == Len(db)
        kept == Without(db, todo_id)
    IN  IF Len(kept) = initial_len THEN Outcome(kept, HTTP_404_NOT_FOUND)
        ELSE Outcome(kept, HTTP_204_NO_CONTENT)

\* GET /todos: `completed` is None (no filter) or a bool.
RECURSIVE Matching(_, _)
Matching(db, completed) ==
    IF db = <<>> THEN <<>>
    ELSE IF PyEq(Head(db).completed, completed)
         THEN <<Head(db)>> \o Matching(Tail(db), completed)
         ELSE Matching(Tail(db), completed)

get_all_todos(db, completed) ==
    IF completed = PyNone THEN db ELSE Matching(db, completed)

\* GET /todos/{id}: the first record with that id, or 404.
get_todo_by_id(db, todo_id) ==
    IF FirstIndex(db, todo_id) = 0
    THEN [status |-> HTTP_404_NOT_FOUND, todo |-> PyNone]
    ELSE [status |-> HTTP_200_OK, todo |-> db[FirstIndex(db, todo_id)]]

(***************************************************************************)
(* POST /mint-nft.  The node and the contract are outside the program:     *)
(* what they answer is an input of the request.                            *)
(***************************************************************************)
\* Recipient addresses: one well-formed, one malformed.
GoodAddress == Str(<<"0", "x", "A">>)
BadAddress  == Str(<<"b", "a", "d">>)

\* w3.is_address
is_address(v) == v = GoodAddress

MintBodies == { <<<<"recipient_address", v>>>> : v \in {GoodAddress, BadAddress} }

\* What the node does with the request: get_transaction_count or
\* build_transaction raises, send_raw_transaction raises, the wait for the
\* receipt times out, the receipt has status 0, the receipt has status 1.
NodeAnswers == {"unreachable", "rejected", "timeout", "status0", "status1"}

\* The status answered and the number of send_raw_transaction calls made.
mint_nft_endpoint(body, node) ==
    IF ~is_address(Get(body, "recipient_address"))
    THEN [status |-> HTTP_400_BAD_REQUEST, sent |-> 0]
    ELSE IF node = "unreachable"
    THEN [status |-> HTTP_500_INTERNAL_SERVER_ERROR, sent |-> 0]
    ELSE IF node \in {"rejected", "timeout"}
    THEN [status |-> HTTP_500_INTERNAL_SERVER_ERROR, sent |-> 1]
    ELSE IF node = "status1"
    THEN [status |-> HTTP_200_OK, sent |-> 1]
    ELSE \* the HTTPException raised for status 0 is caught by the
         \* handler's own `except Exception` and raised again as a 500
         [status |-> HTTP_500_INTERNAL_SERVER_ERROR, sent |-> 1]

(***************************************************************************)
(* Actions: one per request handled.                                       *)
(***************************************************************************)
Request(op, id, body, status) ==
    [op |-> op, id |-> id, body |-> body, status |-> status]

CreateTodo ==
    /\ requests < MaxRequests
    /\ \E body \in CreateBodies :
         LET generate == IdMissing(ParseTodoItem(body).id)
                         /\ Strip(Get(body, "text").chars) # <<>>
             out == create_todo(todos_db, body, Uuid(uuid_count + 1))
         IN  /\ todos_db' = out.db
             /\ uuid_count' = IF generate THEN uuid_count + 1 ELSE uuid_count
             /\ last' = Request("create", PyNone, body, out.status)
    /\ requests' = requests + 1
    /\ UNCHANGED <<sent_txs, gateway>>

UpdateTodo ==
    /\ requests < MaxRequests
    /\ \E todo_id \in PathIds, body \in UpdateBodies :
         LET out == update_todo(todos_db, todo_id, body)
         IN  /\ todos_db' = out.db
             /\ last' = Request("put", todo_id, body, out.status)
    /\ requests' = requests + 1
    /\ UNCHANGED <<uuid_count, sent_txs, gateway>>

PatchTodo ==
    /\ requests < MaxRequests
    /\ \E todo_id \in PathIds, body \in PatchBodies :
         LET out == patch_todo(todos_db, todo_id, body)
         IN  /\ todos_db' = out.db
             /\ last' = Request("patch", todo_id, body, out.status)
    /\ requests' = requests + 1
    /\ UNCHANGED <<uuid_count, sent_txs, gateway>>

DeleteTodo ==
    /\ requests < MaxRequests
    /\ \E todo_id \in PathIds :
         LET out == delete_todo(todos_db, todo_id)
         IN  /\ todos_db' = out.db
             /\ last' = Request("delete", todo_id, <<>>, out.status)
    /\ requests' = requests + 1
    /\ UNCHANGED <<uuid_count, sent_txs, gateway>>

MintNft ==
    /\ requests < MaxRequests
    /\ \E body \in MintBodies, node \in NodeAnswers :
         LET out == mint_nft_endpoint(body, node)
         IN  /\ sent_txs' = sent_txs + out.sent
             /\ last' = Request("mint", PyNone, body, out.status)
    /\ requests' = requests + 1
    /\ UNCHANGED <<todos_db, uuid_count, gateway>>

Next ==
    \/ CreateTodo
    \/ UpdateTodo
    \/ PatchTodo
    \/ DeleteTodo
    \/ MintNft

Spec == Init /\ [][Next]_vars

(***************************************************************************)
(* The gateway handlers, call by call.                                     *)
(*                                                                         *)
(* A request is received (queued) at any time; its handler then runs on    *)
(* the event loop of the process.  A handler gives the loop up where it    *)
(* awaits and when it returns or raises; while it holds the loop no other  *)
(* handler runs.                                                           *)
(***************************************************************************)
\* A request: its kind, the recipient address of a mint, where its handler
\* stands, the nonce it read, the calls it has made (get_transaction_count,
\* send_raw_transaction, stripe.checkout.Session.create), whether a call
\* out of the process raised, the receipt it got (<<>> if none, else
\* <<status>>), and the status answered (0 while there is none).
NewRequest(kind, address) ==
    [kind |-> kind, address |-> address, pc |-> "queued", nonce |-> 0,
     reads |-> 0, sends |-> 0, creates |-> 0, raised |-> FALSE,
     receipt |-> <<>>, status |-> 0]

\* The same handlers written over an asynchronous client, awaiting each
\* call to the node.
AwaitsNodeCalls(pc) == pc \in {"nonce", "send", "wait"}

\* The points of mint_nft_endpoint and create_checkout_session at which
\* the handler awaits: there are none, the web3 and stripe calls are the
\* blocking ones.
Awaits(pc) == FALSE

\* Who holds the loop after request p has taken a step to r.
Holder(p, r) == IF r.pc = "done" \/ Awaits(r.pc) THEN 0 ELSE p

\* Request p may take its next step: it holds the loop, or nobody does.
MayRun(p) ==
    /\ p \in 1..Len(inflight)
    /\ inflight[p].pc # "done"
    /\ running \in {0, p}

Answer(r, status) == [r EXCEPT !.pc = "done", !.status = status]

\* A handler that tries again from the nonce when a call raised.
RaisedRetry(r) == [r EXCEPT !.raised = TRUE, !.pc = "nonce"]

\* `except Exception as e: raise HTTPException(500, ...)`: the request
\* ends there.
Raised(r) == Answer([r EXCEPT !.raised = TRUE], HTTP_500_INTERNAL_SERVER_ERROR)

\* Answering 200 whatever the receipt says.
ReceiptAnswerAny(r, status) ==
    Answer([r EXCEPT !.receipt = <<status>>], HTTP_200_OK)

\* `if receipt.status == 1: return ... else: raise HTTPException(500)`
ReceiptAnswer(r, status) ==
    Answer([r EXCEPT !.receipt = <<status>>],
           IF status = 1 THEN HTTP_200_OK ELSE HTTP_500_INTERNAL_SERVER_ERROR)

Step(p, r) ==
    /\ inflight' = [inflight EXCEPT ![p] = r]
    /\ running' = Holder(p, r)

ReceiveMint ==
    /\ Len(inflight) < MaxInFlight
    /\ \E address \in {GoodAddress, BadAddress} :
         inflight' = Append(inflight, NewRequest("mint", address))
    /\ UNCHANGED <<running, tx_count, pool, sent_txs, store>>

ReceiveCheckout ==
    /\ Len(inflight) < MaxInFlight
    /\ inflight' = Append(inflight, NewRequest("checkout", PyNone))
    /\ UNCHANGED <<running, tx_count, pool, sent_txs, store>>

\* mint_nft_endpoint is entered: the address is validated.
StartMint(p) ==
    /\ MayRun(p)
    /\ inflight[p].kind = "mint"
    /\ inflight[p].pc = "queued"
    /\ IF is_address(inflight[p].address)
       THEN Step(p, [inflight[p] EXCEPT !.pc = "nonce"])
       ELSE Step(p, Answer(inflight[p], HTTP_400_BAD_REQUEST))
    /\ UNCHANGED <<tx_count, pool, sent_txs, store>>

\* nonce = w3.eth.get_transaction_count(owner_address): the count of the
\* owner's mined transactions, or the call raises.
GetNonce(p) ==
    /\ MayRun(p)
    /\ inflight[p].pc = "nonce"
    /\ \E reachable \in BOOLEAN :
         LET r == [inflight[p] EXCEPT !.reads = @ + 1]
         IN  IF reachable
             THEN Step(p, [r EXCEPT !.nonce = tx_count, !.pc = "send"])
             ELSE Step(p, Raised(r))
    /\ UNCHANGED <<tx_count, pool, sent_txs, store>>

\* build_transaction (which asks the node for chain id and gas price),
\* sign_transaction and send_raw_transaction.  The node takes a transaction
\* whose nonce is neither used by a mined transaction nor by a pending one,
\* and may fail to answer at all.
SendTransaction(p) ==
    /\ MayRun(p)
    /\ inflight[p].pc = "send"
    /\ \E node \in {"build_raises", "send_raises", "answers"} :
         LET r == inflight[p]
             s == [r EXCEPT !.sends = @ + 1]
             taken == r.nonce >= tx_count /\ r.nonce \notin pool
         IN  IF node = "build_raises"
             THEN Step(p, Raised(r)) /\ UNCHANGED <<pool, sent_txs>>
             ELSE IF node = "answers" /\ taken
             THEN /\ Step(p, [s EXCEPT !.pc = "wait"])
                  /\ pool' = pool \cup {r.nonce}
                  /\ sent_txs' = sent_txs + 1
             ELSE /\ Step(p, Raised(s))
                  /\ sent_txs' = sent_txs + 1
                  /\ UNCHANGED pool
    /\ UNCHANGED <<tx_count, store>>

\* receipt = w3.eth.wait_for_transaction_receipt(tx_hash, timeout=120): the
\* transaction is mined with status 0 or 1, or the wait times out and the
\* transaction stays pending.
WaitForReceipt(p) ==
    /\ MayRun(p)
    /\ inflight[p].pc = "wait"
    /\ \/ /\ Step(p, Raised(inflight[p]))
          /\ UNCHANGED <<tx_count, pool>>
       \/ /\ inflight[p].nonce = tx_count
          /\ \E status \in {0, 1} : Step(p, ReceiptAnswer(inflight[p], status))
          /\ tx_count' = tx_count + 1
          /\ pool' = pool \ {inflight[p].nonce}
    /\ UNCHANGED <<sent_txs, store>>

\* The node mines a pending transaction nobody waits for any more.
NodeMines ==
    /\ tx_count \in pool
    /\ \A p \in 1..Len(inflight) :
         ~(inflight[p].pc = "wait" /\ inflight[p].nonce = tx_count)
    /\ tx_count' = tx_count + 1
    /\ pool' = pool \ {tx_count}
    /\ UNCHANGED <<inflight, running, sent_txs, store>>

\* create_checkout_session: one call of stripe.checkout.Session.create,
\* which returns the session or raises.
CreateCheckoutSession(p) ==
    /\ MayRun(p)
    /\ inflight[p].kind = "checkout"
    /\ inflight[p].pc = "queued"
    /\ \E created \in BOOLEAN :
         LET r == [inflight[p] EXCEPT !.creates = @ + 1]
         IN  IF created THEN Step(p, Answer(r, HTTP_200_OK))
                        ELSE Step(p, Raised(r))
    /\ UNCHANGED <<tx_count, pool, sent_txs, store>>

NextGateway ==
    \/ ReceiveMint
    \/ ReceiveCheckout
    \/ \E p \in 1..MaxInFlight : StartMint(p)
    \/ \E p \in 1..MaxInFlight : GetNonce(p)
    \/ \E p \in 1..MaxInFlight : SendTransaction(p)
    \/ \E p \in 1..MaxInFlight : WaitForReceipt(p)
    \/ \E p \in 1..MaxInFlight : CreateCheckoutSession(p)
    \/ NodeMines

SpecGateway == Init /\ [][NextGateway]_vars

(***************************************************************************)
(* Vocabulary of the properties.                                           *)
(***************************************************************************)
Indices(db) == 1..Len(db)

\* A str with at least one character that is not whitespace.
NonBlankStr(v) == IsStr(v) /\ \E k \in 1..Len(v.chars) : v.chars[k] # " "

\* The request text with its surrounding whitespace removed.
Trimmed(v) == Str(Strip(v.chars))

WithText(db, text) == { i \in Indices(db) : db[i].text = text }
WithId(db, id)     == { i \in Indices(db) : db[i].id = id }

Succeeded(r, op) ==
    /\ r.op = op
    /\ r.status \in {HTTP_200_OK, HTTP_201_CREATED, HTTP_204_NO_CONTENT}

(***************************************************************************)
(* C1: no two stored records have the same id, whatever sequence of POST   *)
(* (with or without a caller-supplied id), PUT, PATCH and DELETE requests  *)
(* the store has been through.                                             *)
(* The code does not keep it: create_todo appends a caller-supplied id     *)
(* without looking it up, and patch_todo assigns any "id" it is given.     *)
(***************************************************************************)
C1_IdsUnique ==
    \A i, j \in Indices(todos_db) :
        i # j => todos_db[i].id # todos_db[j].id

(***************************************************************************)
(* C2: every stored record's text is a string that is neither empty nor    *)
(* whitespace-only, after any sequence of create, PUT, PATCH and DELETE.   *)
(***************************************************************************)
C2_TextNeverBlank ==
    \A i \in Indices(todos_db) : NonBlankStr(todos_db[i].text)

\* A PUT stored a text that still carries its surrounding whitespace, and a
\* PATCH or a create could have stored a blank one as well, had it not been
\* refused.
C2_Witness ==
    /\ Succeeded(last, "put")
    /\ Get(last.body, "text") # Trimmed(Get(last.body, "text"))
    /\ \E i \in Indices(todos_db) : todos_db[i].text = Get(last.body, "text")

(***************************************************************************)
(* C3: every stored record's completed field is a boolean: false when the  *)
(* task was created without a completed value, and never a non-boolean     *)
(* whatever create, PUT or PATCH requests were made.                       *)
(* The code does not keep it: patch_todo assigns the value of "completed"  *)
(* with setattr, which does not validate it against the field's type.      *)
(***************************************************************************)
C3_CompletedIsBool ==
    /\ \A i \in Indices(todos_db) : IsBool(todos_db[i].completed)
    /\ (Succeeded(last, "create") /\ "completed" \notin Keys(last.body))
          => todos_db[Len(todos_db)].completed = PyBool(FALSE)

(***************************************************************************)
(* C4: GET /todos?completed=true returns only records whose completed is   *)
(* true, GET /todos?completed=false returns exactly the others, and the    *)
(* unfiltered list is their union without duplicates: every stored record  *)
(* is in exactly one of the two filtered lists.                            *)
(* It fails with C3: a record whose completed is no boolean is in neither. *)
(***************************************************************************)
InList(list, todo) == \E k \in 1..Len(list) : list[k] = todo

C4_FilterPartition ==
    LET done   == get_all_todos(todos_db, PyBool(TRUE))
        active == get_all_todos(todos_db, PyBool(FALSE))
        all    == get_all_todos(todos_db, PyNone)
    IN  /\ \A k \in 1..Len(done) : done[k].completed = PyBool(TRUE)
        /\ \A k \in 1..Len(all) : InList(done, all[k]) # InList(active, all[k])
        /\ Len(all) = Len(done) + Len(active)

(***************************************************************************)
(* C5, as claimed: after a task is created through POST /todos with a      *)
(* non-empty text, the list contains exactly one record with that text,    *)
(* and that record has a non-empty id.                                     *)
(***************************************************************************)
C5_ExactlyOneWithRequestText ==
    Succeeded(last, "create") =>
        LET same == WithText(get_all_todos(todos_db, PyNone),
                             Get(last.body, "text"))
        IN  /\ Cardinality(same) = 1
            /\ \A i \in same : NonBlankStr(todos_db[i].id)

(***************************************************************************)
(* C5, amended: a successful POST /todos appends one record, which carries *)
(* the request text with its surrounding whitespace removed and a          *)
(* non-empty id; the number of records with that trimmed text grows by     *)
(* exactly one (texts are not kept unique, so it is the only such record   *)
(* exactly when there was none before).                                    *)
(***************************************************************************)
C5_CreateAddsOneWithTrimmedText ==
    [][ Succeeded(last', "create") =>
          LET text   == Trimmed(Get(last'.body, "text"))
              before == get_all_todos(todos_db, PyNone)
              after  == get_all_todos(todos_db', PyNone)
          IN  /\ Len(after) = Len(before) + 1
              /\ after[Len(after)].text = text
              /\ NonBlankStr(after[Len(after)].id)
              /\ Cardinality(WithText(after, text))
                   = Cardinality(WithText(before, text)) + 1
      ]_vars

\* A padded text was created twice: two records carry its trimmed form and
\* none the text as sent.
C5_Witness ==
    /\ Succeeded(last, "create")
    /\ Get(last.body, "text") # Trimmed(Get(last.body, "text"))
    /\ Cardinality(WithText(todos_db, Trimmed(Get(last.body, "text")))) = 2
    /\ WithText(todos_db, Get(last.body, "text")) = {}

(***************************************************************************)
(* C6: a PATCH that changes a task's completed field from false to true    *)
(* makes exactly one write call to the chain gateway, and the same PATCH   *)
(* on the already completed task makes none.                               *)
(* patch_todo makes no call to the chain at all: the only write call of    *)
(* the program, send_raw_transaction, is made by mint_nft_endpoint.        *)
(***************************************************************************)
Completes(db, db2) ==
    /\ Len(db2) = Len(db)
    /\ \E i \in Indices(db) : /\ db[i].completed = PyBool(FALSE)
                              /\ db2[i].completed = PyBool(TRUE)

C6_CompletionNotifiesOnce ==
    [][ Succeeded(last', "patch") =>
          IF Completes(todos_db, todos_db')
          THEN sent_txs' = sent_txs + 1
          ELSE sent_txs' = sent_txs
      ]_vars

(***************************************************************************)
(* C7, as claimed: PUT, PATCH and DELETE on an id that no stored record    *)
(* has always answer 404, whatever the body, and leave the number of       *)
(* records unchanged.                                                      *)
(***************************************************************************)
OnAbsentId(db, r) ==
    /\ r.op \in {"put", "patch", "delete"}
    /\ WithId(db, r.id) = {}

C8_BlankCreateRejected ==
    [][ (last'.op = "create" /\ ~NonBlankStr(Get(last'.body, "text"))) =>
          /\ last'.status = HTTP_400_BAD_REQUEST
          /\ todos_db' = todos_db
          /\ get_all_todos(todos_db', PyNone) = get_all_todos(todos_db, PyNone)
      ]_vars

\* A create with a whitespace-only (not empty) text has been refused.
C8_Witness ==
    /\ last.op = "create"
    /\ Get(last.body, "text") = Str(<<" ">>)
    /\ last.status = HTTP_400_BAD_REQUEST

(***************************************************************************)
(* C9: after a successful DELETE of an id, a second DELETE of the same id  *)
(* with no request in between is answered 404 and changes nothing.         *)
(***************************************************************************)
C9_SecondDeleteNotFound ==
    [][ (Succeeded(last, "delete") /\ last'.op = "delete" /\ last'.id = last.id)
          => /\ last'.status = HTTP_404_NOT_FOUND
             /\ todos_db' = todos_db
      ]_vars

\* Two requests from the seed store, the second a DELETE of the first
\* seed's id answered 404 with two records left: the first request removed
\* a record, so it was a DELETE, and it removed the first seed, so it was a
\* DELETE of that same id.
C9_Witness ==
    /\ requests = 2
    /\ last.op = "delete"
    /\ last.id = SeedTodos[1].id
    /\ last.status = HTTP_404_NOT_FOUND
    /\ todos_db = Tail(SeedTodos)

(***************************************************************************)
(* C10: a successful PATCH changes one record with the id of the request,  *)
(* and of that record only the fields whose keys are in the request        *)
(* mapping: its other fields, every other record, and the number and       *)
(* order of the records stay as they were.                                 *)
(***************************************************************************)
FieldOf(todo, key) ==
    CASE key = "id"        -> todo.id
      [] key = "text"      -> todo.text
      [] key = "completed" -> todo.completed

C10_PatchFrame ==
    [][ Succeeded(last', "patch") =>
          /\ Len(todos_db') = Len(todos_db)
          /\ \E i \in WithId(todos_db, last'.id) :
               /\ \A j \in Indices(todos_db) \ {i} : todos_db'[j] = todos_db[j]
               /\ \A key \in {"id", "text", "completed"} \ Keys(last'.body) :
                    FieldOf(todos_db'[i], key) = FieldOf(todos_db[i], key)
      ]_vars

\* A PATCH of the text alone succeeded on a completed task, which is still
\* completed.
C10_Witness ==
    /\ Succeeded(last, "patch")
    /\ Keys(last.body) = {"text"}
    /\ \E i \in WithId(todos_db, last.id) :
         /\ todos_db[i].text = Trimmed(Get(last.body, "text"))
         /\ todos_db[i].completed = PyBool(TRUE)

(***************************************************************************)
(* C14: after a successful POST, PUT or PATCH that carries a text, the     *)
(* stored text of the record it created or updated is the request text     *)
(* with surrounding whitespace removed, so no stored text has leading or   *)
(* trailing whitespace.                                                    *)
(* update_todo computes trimmed_text for its check and then stores         *)
(* payload.text, the text as sent.                                         *)
(***************************************************************************)
Affected(db, r) ==
    IF r.op = "create" THEN {Len(db)}
    ELSE IF "id" \in Keys(r.body)
         THEN WithId(db, Get(r.body, "id"))
         ELSE WithId(db, r.id)

C14_StoredTextTrimmed ==
    /\ \A i \in Indices(todos_db) :
         IsStr(todos_db[i].text) /\ todos_db[i].text = Trimmed(todos_db[i].text)
    /\ ( /\ last.op \in {"create", "put", "patch"}
         /\ last.status \in {HTTP_200_OK, HTTP_201_CREATED}
         /\ "text" \in Keys(last.body) )
         => \E i \in Affected(todos_db, last) :
                todos_db[i].text = Trimmed(Get(last.body, "text"))

(***************************************************************************)
(* C15: a successful DELETE removes the matching record and nothing else:  *)
(* the number of records goes down by exactly one, and every record with   *)
(* another id stays, unchanged and in the same order.                      *)
(* It fails with C1: when two records share the id, delete_todo removes    *)
(* both.                                                                   *)
(***************************************************************************)
RECURSIVE OtherThan(_, _)
OtherThan(db, id) ==
    IF db = <<>> THEN <<>>
    ELSE IF Head(db).id = id THEN OtherThan(Tail(db), id)
    ELSE <<Head(db)>> \o OtherThan(Tail(db), id)

C15_DeleteRemovesOne ==
    [][ Succeeded(last', "delete") =>
          /\ Len(todos_db') = Len(todos_db) - 1
          /\ OtherThan(todos_db', last'.id) = OtherThan(todos_db, last'.id)
          /\ WithId(todos_db', last'.id) = {}
      ]_vars

(***************************************************************************)
(* Vocabulary of the gateway properties.                                   *)
(***************************************************************************)
Mints     == { p \in 1..Len(inflight) : inflight[p].kind = "mint" }
Checkouts == { p \in 1..Len(inflight) : inflight[p].kind = "checkout" }
Answered(p) == inflight[p].pc = "done"

\* The request has read a nonce and has not yet submitted its transaction.
HoldsNonce(p) == inflight[p].pc = "send"

(***************************************************************************)
(* C11: POST /mint-nft answers 400, without reading a nonce or submitting  *)
(* a transaction, when the recipient address is malformed; otherwise it    *)
(* answers 200 only after the transaction was submitted and its receipt    *)
(* has status 1, and 500 in every other case (node unreachable,            *)
(* submission rejected, receipt status 0, wait timed out).                 *)
(***************************************************************************)
C11_MintStatus ==
    \A p \in Mints :
        LET r == inflight[p]
            malformed == r.address # GoodAddress
            mined == r.sends = 1 /\ r.receipt = <<1>>
        IN  /\ malformed => r.reads = 0 /\ r.sends = 0
            /\ Answered(p) =>
                 r.status = IF malformed THEN HTTP_400_BAD_REQUEST
                            ELSE IF mined THEN HTTP_200_OK
                            ELSE HTTP_500_INTERNAL_SERVER_ERROR
            /\ ~Answered(p) => r.status = 0 /\ r.receipt = <<>>

\* Three mints have been answered: one refused for its address, one whose
\* receipt had status 1 and one whose receipt had status 0.
C11_Witness ==
    /\ \E p \in Mints : Answered(p) /\ inflight[p].status = HTTP_400_BAD_REQUEST
    /\ \E p \in Mints : Answered(p) /\ inflight[p].receipt = <<1>>
    /\ \E p \in Mints : Answered(p) /\ inflight[p].receipt = <<0>>

C13_NoRetry ==
    /\ \A p \in Mints : inflight[p].sends <= 1 /\ inflight[p].reads <= 1
    /\ \A p \in Checkouts :
         /\ inflight[p].creates <= 1
         /\ Answered(p) => inflight[p].creates = 1
    /\ \A p \in 1..Len(inflight) :
         inflight[p].raised =>
            Answered(p) /\ inflight[p].status = HTTP_500_INTERNAL_SERVER_ERROR

\* A mint whose submission raised and a checkout whose creation call
\* raised have both been answered.
C13_Witness ==
    /\ \E p \in Mints :
         inflight[p].raised /\ inflight[p].sends = 1 /\ Answered(p)
    /\ \E p \in Checkouts :
         inflight[p].raised /\ inflight[p].creates = 1 /\ Answered(p)

====
